---- MODULE Spec2Model ----
(***************************************************************************)
(* Capability mediation bridge of the WebView app.                         *)
(*                                                                         *)
(* Two parts of the repository are modelled:                               *)
(*   - WebViewScreen (src/src/components/HomeScreen.tsx, lines 284-507):   *)
(*     the back handler, the navigation signal, the grant state store      *)
(*     (permissionsGranted) and the bridge handler handlePermissionRequest *)
(*     with the asynchronous request cycles it starts;                     *)
(*   - the capability resolver (src/src/utils/permissions.ts).             *)
(* The screen imports `request` from react-native-permissions directly; it *)
(* never calls the resolver module, so the two parts share no state.       *)
(***************************************************************************)
EXTENDS Naturals, Sequences, FiniteSets, TLC

\* Number of bridge messages delivered to the screen over one behaviour.
MaxTasks == 2

Capability == {"camera", "microphone"}

\* react-native-permissions RESULTS, as returned by check()/request().
Statuses == {"unavailable", "denied", "limited", "granted", "blocked"}
\* An OS call either resolves to a status or rejects ("error").
Outcomes == Statuses \cup {"error"}
\* The screen compares a status with RESULTS.GRANTED only (line 357), so its
\* requests are answered from one status per class: granted, an ordinary
\* refusal, a permanent block, or a rejection of the call.
ScreenOutcomes == {"granted", "denied", "blocked", "error"}

Undefined == "undefined"
PERMISSION_REQUEST == "PERMISSION_REQUEST"

\* event.nativeEvent.data as delivered by the WebView message channel: the
\* text of the message as a sequence of tokens.
Member(k, v) == <<k, ":", v>>
Payloads ==
    { <<"hello">>,
      <<"null">>,
      <<"5">>,
      <<"{", "type", ":", PERMISSION_REQUEST>>,
      <<"{">> \o Member("permission", "camera") \o <<"}">>,
      <<"{">> \o Member("type", "OTHER") \o <<",">>
            \o Member("permission", "camera") \o <<"}">>,
      <<"{">> \o Member("type", PERMISSION_REQUEST) \o <<"}">>,
      <<"{">> \o Member("type", PERMISSION_REQUEST) \o <<",">>
            \o Member("permission", "video") \o <<"}">>,
      <<"{">> \o Member("type", PERMISSION_REQUEST) \o <<",">>
            \o Member("permission", "camera") \o <<"}">>,
      <<"{">> \o Member("type", PERMISSION_REQUEST) \o <<",">>
            \o Member("permission", "microphone") \o <<"}">>,
      <<"{">> \o Member("type", PERMISSION_REQUEST) \o <<",">>
            \o Member("permission", "all") \o <<"}">> }

VARIABLES
    screen,              \* "home" | "focused" | "blurred": WebViewScreen mount/focus
    canGoBack,           \* useState(false), line 312
    isLoading,           \* useState(true), line 311
    permissionsGranted,  \* useState({camera:false, microphone:false}), 313-316
    rendered,            \* the state as of the last committed render
    listener,            \* the canGoBack of the onBackPress registered in BackHandler
    lastBack,            \* calls made by the latest back action on this screen instance
    popping,             \* onGoBack() has asked the navigator to pop this screen
    tasks,               \* handlePermissionRequest invocations, in arrival order
    rcalls,              \* the resolver operations in flight (utils/permissions.ts)
    content              \* the content context: injected shim and message channel

screenVars ==
    <<screen, canGoBack, isLoading, permissionsGranted, rendered, listener,
      lastBack, popping, tasks>>
vars ==
    <<screen, canGoBack, isLoading, permissionsGranted, rendered, listener,
      lastBack, popping, tasks,
      rcalls, content>>

\* The page of a freshly created WebView: the shim is not yet injected,
\* getUserMedia was never called and nothing is posted.
NoConstraints == [defined |-> FALSE, video |-> "undefined", audio |-> "undefined"]
NotInvoked == [invoked |-> FALSE, arg |-> NoConstraints]
NoCall ==
    [arg |-> NoConstraints, posts |-> <<>>, trace |-> <<>>, threw |-> FALSE,
     original |-> NotInvoked]

NoContent ==
    [installed |-> FALSE, called |-> FALSE, last |-> NoCall, channel |-> <<>>]

----------------------------------------------------------------------------
\* WebViewScreen: navigation synchronizer

NoBack == [src |-> "none", goBack |-> 0, onGoBack |-> 0, consumed |-> FALSE]

\* onBackPress ending in `return false` after onGoBack(): the press is also
\* handed to the platform's default handling.
OnBackPress_ReturnsFalse(cgb, refSet) ==
    IF cgb /\ refSet
    THEN [src |-> "hardware", goBack |-> 1, onGoBack |-> 0, consumed |-> TRUE]
    ELSE [src |-> "hardware", goBack |-> 0, onGoBack |-> 1, consumed |-> FALSE]

\* onBackPress, lines 321-328. refSet is webViewRef.current != null.
OnBackPress(cgb, refSet) ==
    IF cgb /\ refSet
    THEN [src |-> "hardware", goBack |-> 1, onGoBack |-> 0, consumed |-> TRUE]
    ELSE [src |-> "hardware", goBack |-> 0, onGoBack |-> 1, consumed |-> TRUE]

\* <TouchableOpacity onPress={onGoBack}>, line 444.
HeaderBack ==
    [src |-> "header", goBack |-> 0, onGoBack |-> 1, consumed |-> TRUE]

\* webViewRef is attached while the WebView element is mounted (line 467).
WebViewRefSet == screen # "home"

\* onGoBack = () => navigation.goBack() (App.tsx line 89): the navigator is
\* asked to pop the viewer. The handler returns with the screen still
\* focused and its listener registered; the navigator delivers blur later.
\* A second request for a screen already being popped pops nothing more.
PoppingAfter(effect) == popping \/ effect.onGoBack > 0

DefaultGrants == [c \in Capability |-> FALSE]

\* What the first render of a screen instance commits.
FirstRender == [canGoBack |-> FALSE, permissionsGranted |-> DefaultGrants]

\* App.tsx 78-81: navigation.navigate('WebView') mounts a fresh
\* WebViewScreen; its first render and the first run of the focus effect
\* (which registers the onBackPress of that render) are part of the step.
NavigateToWebView ==
    /\ screen = "home"
    /\ screen' = "focused"
    /\ canGoBack' = FALSE
    /\ isLoading' = TRUE
    /\ permissionsGranted' = DefaultGrants
    /\ rendered' = FirstRender
    /\ listener' = FirstRender.canGoBack
    /\ lastBack' = NoBack
    /\ popping' = FALSE
    /\ UNCHANGED <<tasks, rcalls, content>>

\* onNavigationStateChange, line 472: setCanGoBack(navState.canGoBack).
\* The listener registered in BackHandler stays the closure it is until
\* React has rendered again and run the focus effect (action Render).
NavigationStateChange(b) ==
    /\ screen # "home"
    /\ canGoBack' = b
    /\ UNCHANGED <<screen, permissionsGranted, lastBack, popping, tasks>>
    /\ UNCHANGED <<isLoading, rendered, listener, rcalls, content>>

\* What a render of the component with the state set so far commits.
Committed ==
    [canGoBack |-> canGoBack, permissionsGranted |-> permissionsGranted]

\* React's next piece of work on the screen. A render is committed: the
\* indicators (lines 447-462) show the store of that render, and the focus
\* effect, whose dependencies include canGoBack (line 334), is left
\* pending when canGoBack differs from the one of the registered
\* listener. The pending effect runs in a later piece of work, and before
\* any further render: its cleanup removes the registered onBackPress and
\* the effect registers the one of the committed render (lines 330-333).
\* Between the two the screen shows the new render while BackHandler
\* still holds the listener of the render before. The focus effect
\* registers nothing on a screen that has lost focus.
Render ==
    /\ screen # "home"
    /\ IF screen = "focused" /\ listener # rendered.canGoBack
       THEN /\ listener' = rendered.canGoBack
            /\ UNCHANGED rendered
       ELSE /\ rendered # Committed
            /\ rendered' = Committed
            /\ UNCHANGED listener
    /\ UNCHANGED <<screen, canGoBack, isLoading, permissionsGranted, lastBack, popping, tasks>>
    /\ UNCHANGED <<rcalls, content>>

\* onLoadStart / onLoadEnd of the WebView (lines 470-471): the page starts
\* or finishes loading and the loading overlay (499) is shown or hidden.
LoadStart ==
    /\ screen # "home"
    /\ isLoading' = TRUE
    /\ UNCHANGED <<screen, canGoBack, permissionsGranted, lastBack, popping, tasks>>
    /\ UNCHANGED <<rendered, listener, rcalls, content>>

LoadEnd ==
    /\ screen # "home"
    /\ isLoading' = FALSE
    /\ UNCHANGED <<screen, canGoBack, permissionsGranted, lastBack, popping, tasks>>
    /\ UNCHANGED <<rendered, listener, rcalls, content>>

\* hardwareBackPress while the focus effect has a listener registered
\* (lines 319-335): the listener is the onBackPress the focus effect
\* registered last and tests the canGoBack of the render it belongs to. It
\* stays registered after onGoBack() until the blur arrives, so a further
\* press runs it again.
HardwareBackPress ==
    /\ screen = "focused"
    /\ LET e == OnBackPress(listener, WebViewRefSet)
       IN /\ lastBack' = e
          /\ popping' = PoppingAfter(e)
    /\ UNCHANGED <<screen, canGoBack, permissionsGranted, tasks>>
    /\ UNCHANGED <<isLoading, rendered, listener, rcalls, content>>

\* A press that finds no listener of this screen: nothing of the screen
\* runs and the platform's default handling takes the press.
Unhandled == [src |-> "hardware", goBack |-> 0, onGoBack |-> 0, consumed |-> FALSE]

\* hardwareBackPress after the viewer lost focus: the cleanup of the focus
\* effect has removed the listener (lines 332-333).
HardwareBackPressUnfocused ==
    /\ screen = "blurred"
    /\ lastBack' = Unhandled
    /\ UNCHANGED <<screen, popping, canGoBack, permissionsGranted, tasks>>
    /\ UNCHANGED <<isLoading, rendered, listener, rcalls, content>>

\* The header "Back" button, lines 444-446: it is rendered, and its
\* onPress={onGoBack} callable, as long as the screen is mounted; pressed
\* on a screen that is already being popped it calls onGoBack() again.
HeaderBackPress ==
    /\ screen # "home"
    /\ lastBack' = HeaderBack
    /\ popping' = PoppingAfter(HeaderBack)
    /\ UNCHANGED <<screen, canGoBack, permissionsGranted, tasks>>
    /\ UNCHANGED <<isLoading, rendered, listener, rcalls, content>>

\* The navigator, asked to pop the viewer, takes the focus from it: the
\* cleanup of the focus effect removes the hardwareBackPress listener
\* (lines 332-333). A callback of its own, after the handler that called
\* onGoBack() has returned.
Blur ==
    /\ screen = "focused"
    /\ popping
    /\ screen' = "blurred"
    /\ UNCHANGED <<canGoBack, permissionsGranted, lastBack, popping, tasks>>
    /\ UNCHANGED <<isLoading, rendered, listener, rcalls, content>>

\* The swipe-back gesture of the native stack (App.tsx 71-76 sets no
\* gestureEnabled: false): the navigator pops the viewer itself and takes
\* the focus from it; neither onBackPress nor onGoBack runs.
Gesture == [src |-> "gesture", goBack |-> 0, onGoBack |-> 0, consumed |-> FALSE]

GestureBack ==
    /\ screen = "focused"
    /\ lastBack' = Gesture
    /\ screen' = "blurred"
    /\ popping' = TRUE
    /\ UNCHANGED <<canGoBack, permissionsGranted, tasks>>
    /\ UNCHANGED <<isLoading, rendered, listener, rcalls, content>>

\* The popped screen unmounts: its state is discarded and later state
\* updates from its pending promises are dropped by React.
Unmount ==
    /\ screen = "blurred"
    /\ screen' = "home"
    /\ canGoBack' = FALSE
    /\ isLoading' = TRUE
    /\ permissionsGranted' = DefaultGrants
    /\ rendered' = FirstRender
    /\ listener' = FirstRender.canGoBack
    /\ tasks' = [i \in 1..Len(tasks) |-> [tasks[i] EXCEPT !.live = FALSE]]
    /\ content' = NoContent
    /\ popping' = FALSE
    /\ UNCHANGED <<lastBack, rcalls>>

----------------------------------------------------------------------------
\* WebViewScreen: bridge protocol handler

\* The text of a message is a sequence of tokens: punctuation, the
\* literals null, true, false and digits, and words. Inside an object or
\* an array a word stands for a quoted string; a text that is one bare
\* word is not JSON.
Punctuation == {"{", "}", "[", "]", ":", ","}
NumberTokens == {"0", "1", "2", "3", "4", "5", "6", "7", "8", "9"}
LiteralTokens == {"null", "true", "false"} \cup NumberTokens

IsWord(tok) == tok \notin Punctuation \cup LiteralTokens

\* typeof-like class of a scalar token.
ScalarType(tok) ==
    IF tok = "null" THEN "null"
    ELSE IF tok \in {"true", "false"} THEN "boolean"
    ELSE IF tok \in NumberTokens THEN "number"
    ELSE "string"

NoFields == [k \in {} |-> Undefined]

ParseFailed == [ok |-> FALSE, t |-> "none", fields |-> NoFields, rest |-> <<>>]

\* The value stored for a member: the token of a scalar, a marker for a
\* nested object or array.
FieldValue(v, tok) == IF v.t \in {"object", "array"} THEN "[" \o v.t \o "]" ELSE tok

\* A recursive-descent reading of one JSON value at the head of toks:
\* [ok, t: its class, fields: its members when it is an object, rest: the
\* tokens after it]. In an object a later key overrides an earlier one.
RECURSIVE ParseValue(_)
RECURSIVE ParseMembers(_, _)
RECURSIVE ParseElements(_)
ParseValue(toks) ==
    IF toks = <<>> THEN ParseFailed
    ELSE IF toks[1] = "{"
    THEN IF Len(toks) >= 2 /\ toks[2] = "}"
         THEN [ok |-> TRUE, t |-> "object", fields |-> NoFields,
               rest |-> SubSeq(toks, 3, Len(toks))]
         ELSE ParseMembers(Tail(toks), NoFields)
    ELSE IF toks[1] = "["
    THEN IF Len(toks) >= 2 /\ toks[2] = "]"
         THEN [ok |-> TRUE, t |-> "array", fields |-> NoFields,
               rest |-> SubSeq(toks, 3, Len(toks))]
         ELSE ParseElements(Tail(toks))
    ELSE IF toks[1] \in Punctuation THEN ParseFailed
    ELSE [ok |-> TRUE, t |-> ScalarType(toks[1]), fields |-> NoFields,
          rest |-> Tail(toks)]

\* The members of an object, after the opening brace or a comma.
ParseMembers(toks, acc) ==
    IF Len(toks) < 3 \/ ~IsWord(toks[1]) \/ toks[2] # ":" THEN ParseFailed
    ELSE LET v == ParseValue(SubSeq(toks, 3, Len(toks)))
             got == (toks[1] :> FieldValue(v, toks[3])) @@ acc
         IN IF ~v.ok \/ v.rest = <<>> THEN ParseFailed
            ELSE IF v.rest[1] = "}"
            THEN [ok |-> TRUE, t |-> "object", fields |-> got,
                  rest |-> Tail(v.rest)]
            ELSE IF v.rest[1] = ","
            THEN ParseMembers(Tail(v.rest), got)
            ELSE ParseFailed

\* The elements of an array, after the opening bracket or a comma.
ParseElements(toks) ==
    LET v == ParseValue(toks)
    IN IF ~v.ok \/ v.rest = <<>> THEN ParseFailed
       ELSE IF v.rest[1] = "]"
       THEN [ok |-> TRUE, t |-> "array", fields |-> NoFields,
             rest |-> Tail(v.rest)]
       ELSE IF v.rest[1] = ","
       THEN ParseElements(Tail(v.rest))
       ELSE ParseFailed

\* JSON.parse(event.nativeEvent.data), line 390: throws on text that is not
\* one JSON value, otherwise yields the value.
JSONParse(data) ==
    LET v == ParseValue(data)
    IN IF v.ok /\ v.rest = <<>> /\ ~(Len(data) = 1 /\ IsWord(data[1]))
       THEN [threw |-> FALSE, t |-> v.t, fields |-> v.fields]
       ELSE [threw |-> TRUE, t |-> "none", fields |-> NoFields]

\* data.type / data.permission: undefined when the property is absent.
Get(value, key) ==
    IF key \in DOMAIN value.fields THEN value.fields[key] ELSE Undefined

\* The body of the try block, lines 390-399: which request the message
\* starts ("none" when it starts nothing) and whether the body threw.
\* Reading a property of null throws a TypeError.
TryBody(data) ==
    LET p == JSONParse(data) IN
    IF p.threw \/ p.t = "null" THEN [threw |-> TRUE, target |-> "none"]
    ELSE IF Get(p, "type") = PERMISSION_REQUEST
    THEN LET perm == Get(p, "permission")
         IN [threw |-> FALSE,
             target |-> IF perm \in {"camera", "microphone", "all"}
                        THEN perm ELSE "none"]
    ELSE [threw |-> FALSE, target |-> "none"]

\* handlePermissionRequest without the try/catch: what the body throws
\* leaves the handler.
Dispatch_NoCatch(data) ==
    LET r == TryBody(data)
    IN [target |-> r.target, uncaught |-> r.threw]

\* try { ... } catch (error) { }, lines 389-403: the catch swallows whatever
\* the body threw.
Dispatch(data) ==
    LET r == TryBody(data)
    IN [target |-> r.target, uncaught |-> FALSE]

\* const granted = result === RESULTS.GRANTED, line 357.
GrantedOf(result) == result = "granted"

\* The updater without the spread of prev: the other key falls back to false.
Updater_NoSpread(prev, c, granted) ==
    [[d \in Capability |-> FALSE] EXCEPT ![c] = granted]

\* setPermissionsGranted(prev => ({...prev, [permissionType]: granted})),
\* lines 359-362.
Updater(prev, c, granted) == [prev EXCEPT ![c] = granted]

\* The catch block recording the failure as a refusal in the store.
AfterRequest_FailClosed(o) ==
    IF o = "error"
    THEN [set |-> TRUE, ret |-> FALSE, uncaught |-> FALSE]
    ELSE [set |-> TRUE, ret |-> GrantedOf(o), uncaught |-> FALSE]

\* The store updater invoked for a granted result only.
AfterRequest_GrantOnly(o) ==
    IF o = "error"
    THEN [set |-> FALSE, ret |-> FALSE, uncaught |-> FALSE]
    ELSE [set |-> GrantedOf(o), ret |-> GrantedOf(o), uncaught |-> FALSE]

\* requestPermission after `await request(permission)`, lines 355-368:
\* [set: whether the store updater is invoked, ret: the returned boolean,
\*  uncaught: whether the rejection leaves requestPermission].
AfterRequest(o) ==
    IF o = "error"
    THEN [set |-> FALSE, ret |-> FALSE, uncaught |-> FALSE]
    ELSE [set |-> TRUE, ret |-> GrantedOf(o), uncaught |-> FALSE]

\* The alert shown at the end of every cycle, whatever was granted.
AlertsShown_Always(cameraGranted, microphoneGranted) == 1

\* The alert condition with && in place of ||.
AlertsShown_BothRefused(cameraGranted, microphoneGranted) ==
    IF ~cameraGranted /\ ~microphoneGranted THEN 1 ELSE 0

\* if (!cameraGranted || !microphoneGranted) Alert.alert(...), lines 376-382.
AlertsShown(cameraGranted, microphoneGranted) ==
    IF ~cameraGranted \/ ~microphoneGranted THEN 1 ELSE 0

\* The buttons of that alert, line 380: a single OK without a handler.
ScreenAlertButtons == {[text |-> "OK", onPress |-> "none"]}

\* return cameraGranted && microphoneGranted, line 384.
AllGranted(cameraGranted, microphoneGranted) ==
    cameraGranted /\ microphoneGranted

\* The capability requested first for a target (lines 373, 394, 396).
FirstCapability(target) ==
    IF target = "microphone" THEN "microphone" ELSE "camera"

PcOf(c) == IF c = "camera" THEN "reqCamera" ELSE "reqMicrophone"

Zero == [c \in Capability |-> 0]

\* handlePermissionRequest up to its first await (lines 388-399).
NewTask(data) ==
    LET d == Dispatch(data)
        first == FirstCapability(d.target)
    IN [msg |-> data,
        target |-> d.target,
        pc |-> IF d.target = "none" THEN "done" ELSE PcOf(first),
        live |-> TRUE,
        out |-> [c \in Capability |-> "none"],
        granted |-> DefaultGrants,
        reqs |-> IF d.target = "none" THEN Zero
                 ELSE [Zero EXCEPT ![first] = 1],
        sets |-> Zero,
        alerts |-> 0,
        ret |-> "none",
        uncaught |-> d.uncaught]

\* onMessage={handlePermissionRequest}, line 473.
OnMessage(data) ==
    /\ screen # "home"
    /\ Len(tasks) < MaxTasks
    /\ tasks' = Append(tasks, NewTask(data))
    /\ UNCHANGED <<screen, canGoBack, permissionsGranted, lastBack, popping>>
    /\ UNCHANGED <<isLoading, rendered, listener, rcalls, content>>

\* Positions of a cycle: "reqX" is suspended in `await request(...)` for X
\* (line 356); "retX" is between the return of requestPermission(X) and the
\* continuation of requestAllPermissions that awaits it (lines 373-374),
\* which the promise machinery runs in a later job.
AwaitingOS == {"reqCamera", "reqMicrophone"}
Returned == {"retCamera", "retMicrophone"}

\* The capability a position is about.
Awaiting(t) ==
    IF t.pc \in {"reqCamera", "retCamera"} THEN "camera" ELSE "microphone"

RetOf(c) == IF c = "camera" THEN "retCamera" ELSE "retMicrophone"

\* requestAllPermissions asking for the camera twice.
NextCapability_CameraTwice(target, c) ==
    IF target = "all" /\ c = "camera" THEN "camera" ELSE "none"

\* requestAllPermissions awaits the camera request and then issues the
\* microphone request (lines 373-374); a single-capability message issues
\* one request (lines 393-396). "none": nothing further is requested.
NextCapability(target, c) ==
    IF target = "all" /\ c = "camera" THEN "microphone" ELSE "none"

\* The job that runs when request(permission) settles with o: the rest of
\* requestPermission (lines 357-368). It ends a single-capability cycle,
\* whose caller does nothing after its await (lines 394, 396); in a cycle
\* for "all" the caller's continuation is a job of its own (Continue).
Resume(t, o) ==
    LET c == Awaiting(t)
        r == AfterRequest(o)
        t1 == [t EXCEPT !.out[c] = o,
                        !.granted[c] = r.ret,
                        !.sets[c] = @ + (IF r.set THEN 1 ELSE 0),
                        !.uncaught = r.uncaught]
    IN IF r.uncaught \/ t.target # "all" THEN [t1 EXCEPT !.pc = "done"]
       ELSE [t1 EXCEPT !.pc = RetOf(c)]

\* The job that resumes requestAllPermissions after requestPermission
\* returned: after the camera it issues the microphone request (line 374);
\* after the microphone it shows the alert or not and returns (376-384).
Continue(t) ==
    LET next == NextCapability(t.target, Awaiting(t))
    IN IF next # "none"
       THEN [t EXCEPT !.pc = PcOf(next), !.reqs[next] = @ + 1]
       ELSE [t EXCEPT !.pc = "done",
                      !.alerts = @ + AlertsShown(t.granted["camera"],
                                                 t.granted["microphone"]),
                      !.ret = IF AllGranted(t.granted["camera"],
                                            t.granted["microphone"])
                              THEN "true" ELSE "false"]

\* A grant, once in the store, kept whatever a later request returns.
StoreAfter_Sticky(t, o) ==
    IF AfterRequest(o).set /\ t.live
    THEN Updater(permissionsGranted, Awaiting(t),
                 permissionsGranted[Awaiting(t)] \/ AfterRequest(o).ret)
    ELSE permissionsGranted

\* The update applied whether or not the component is still mounted.
StoreAfter_IgnoresUnmount(t, o) ==
    IF AfterRequest(o).set
    THEN Updater(permissionsGranted, Awaiting(t), AfterRequest(o).ret)
    ELSE permissionsGranted

\* The store written after every settled request, failed ones included.
StoreAfter_OnEveryAnswer(t, o) ==
    IF t.live
    THEN Updater(permissionsGranted, Awaiting(t), AfterRequest(o).ret)
    ELSE permissionsGranted

\* The store after the job: the functional update of lines 359-362 is
\* queued on the state and React drops the update of an unmounted component.
\* permissionsGranted is the state with its queued updates applied, in the
\* order they were queued; what is on screen is rendered.permissionsGranted.
StoreAfter(t, o) ==
    IF AfterRequest(o).set /\ t.live
    THEN Updater(permissionsGranted, Awaiting(t), AfterRequest(o).ret)
    ELSE permissionsGranted

\* The OS settles the pending request of task i.
OSAnswer(i, o) ==
    /\ i \in 1..Len(tasks)
    /\ tasks[i].pc \in AwaitingOS
    /\ tasks' = [tasks EXCEPT ![i] = Resume(tasks[i], o)]
    /\ permissionsGranted' = StoreAfter(tasks[i], o)
    /\ UNCHANGED <<screen, canGoBack, lastBack, popping>>
    /\ UNCHANGED <<isLoading, rendered, listener, rcalls, content>>

\* The continuation of requestAllPermissions in task i runs.
ContinueAll(i) ==
    /\ i \in 1..Len(tasks)
    /\ tasks[i].pc \in Returned
    /\ tasks' = [tasks EXCEPT ![i] = Continue(tasks[i])]
    /\ UNCHANGED <<screen, canGoBack, permissionsGranted, lastBack, popping>>
    /\ UNCHANGED <<isLoading, rendered, listener, rcalls, content>>

----------------------------------------------------------------------------
\* Capability resolver, src/src/utils/permissions.ts

Platforms == {"ios", "android"}

\* getPermissionConstant, lines 20-30.
GetPermissionConstant(os, type) ==
    IF os = "ios"
    THEN (IF type = "camera" THEN "ios.permission.CAMERA"
          ELSE "ios.permission.MICROPHONE")
    ELSE (IF type = "camera" THEN "android.permission.CAMERA"
          ELSE "android.permission.RECORD_AUDIO")

\* granted computed as "not denied" instead of "is granted".
PermissionResult_NotDenied(status) ==
    [granted |-> status # "denied", status |-> status]

\* {granted: status === RESULTS.GRANTED, status}, lines 39-42 and 52-55.
PermissionResult(status) ==
    [granted |-> status = "granted", status |-> status]

NoResult == [granted |-> FALSE, status |-> "none"]

SingleOps ==
    {"checkPermission", "requestPermission", "handlePermissionResult",
     "showPermissionDeniedAlert"}
AllOps == {"checkAllPermissions", "requestAllPermissions", "arePermissionsBlocked"}

\* Every operation going through request().
OsCallOf_AlwaysRequest(op) == "request"

\* Which OS entry point an operation uses: check() never prompts.
OsCallOf(op) ==
    IF op \in {"checkPermission", "checkAllPermissions", "arePermissionsBlocked"}
    THEN "check" ELSE "request"

\* The capabilities an operation asks the OS about, all issued before the
\* first await (Promise.all over both calls, lines 63-66, 77-80, 129-132).
AskedBy(op, arg) == IF op \in AllOps THEN Capability ELSE {arg}

NoValue ==
    [kind |-> "none", result |-> NoResult, camera |-> NoResult,
     microphone |-> NoResult, allGranted |-> FALSE, ok |-> FALSE,
     blocked |-> [c \in Capability |-> FALSE]]

Idle ==
    [op |-> "none", arg |-> "none", os |-> "none", state |-> "idle",
     pending |-> [c \in Capability |-> "none"],
     issued |-> [c \in Capability |-> "none"],
     failed |-> [c \in Capability |-> FALSE],
     permission |-> [c \in Capability |-> "none"],
     got |-> [c \in Capability |-> NoResult],
     value |-> NoValue,
     alerts |-> <<>>,
     dialog |-> "none"]

\* allGranted computed with || in place of &&.
AllGrantedOf_Either(camera, microphone) == camera.granted \/ microphone.granted

\* allGranted: camera.granted && microphone.granted, line 85.
AllGrantedOf(camera, microphone) == camera.granted /\ microphone.granted

\* The value a fulfilled operation returns, from the results it awaited.
ReturnValue(op, arg, got) ==
    IF op \in {"checkPermission", "requestPermission"}
    THEN [NoValue EXCEPT !.kind = "result", !.result = got[arg]]
    ELSE IF op = "handlePermissionResult"
    THEN [NoValue EXCEPT !.kind = "boolean", !.ok = got[arg].granted]
    ELSE IF op = "checkAllPermissions"
    THEN [NoValue EXCEPT !.kind = "pair", !.camera = got["camera"],
                         !.microphone = got["microphone"]]
    ELSE IF op = "requestAllPermissions"
    THEN [NoValue EXCEPT !.kind = "all", !.camera = got["camera"],
                         !.microphone = got["microphone"],
                         !.allGranted = AllGrantedOf(got["camera"],
                                                     got["microphone"])]
    ELSE [NoValue EXCEPT !.kind = "blocked",
                         !.blocked = [c \in Capability |->
                                         got[c].status = "blocked"]]

\* The settings alert shown for every refusal.
AlertsFor_AnyRefusal(op, arg, result) ==
    IF op = "handlePermissionResult" /\ ~result.granted
    THEN <<arg>> ELSE <<>>

\* handlePermissionResult, lines 114-119: the settings alert is shown for a
\* blocked status only.
AlertsFor(op, arg, result) ==
    IF op = "handlePermissionResult" /\ ~result.granted
       /\ result.status = "blocked"
    THEN <<arg>> ELSE <<>>

\* What an operation does with a rejected OS call: no operation of the
\* module has a try/catch, so the rejection reaches the caller.
OnOsError(op) == "rejected"

\* The operations of the module in flight at the same time: nothing in the
\* module serialises its callers, so a second operation may start while the
\* first is still awaiting the OS. Each slot holds one operation and is
\* reused once that operation and its OS calls are over.
Callers == {"first", "second"}

\* The buttons of the alert of showPermissionDeniedAlert, lines 98-104.
DeniedAlertButtons ==
    {[text |-> "Cancel", onPress |-> "none"],
     [text |-> "Open Settings", onPress |-> "openSettings"]}

\* showPermissionDeniedAlert(permissionType), lines 90-106: synchronous, no
\* OS call; the alert is on screen when it returns.
ShowPermissionDeniedAlert(arg, os) ==
    [Idle EXCEPT !.op = "showPermissionDeniedAlert", !.arg = arg, !.os = os,
                 !.state = "returned",
                 !.value = [NoValue EXCEPT !.kind = "void"],
                 !.alerts = <<arg>>,
                 !.dialog = "open"]

\* An asynchronous operation up to its first await: the OS calls are issued.
Started(op, arg, os) ==
    [Idle EXCEPT
       !.op = op, !.arg = arg, !.os = os, !.state = "running",
       !.pending = [c \in Capability |->
                       IF c \in AskedBy(op, arg) THEN OsCallOf(op)
                       ELSE "none"],
       !.issued = [c \in Capability |->
                       IF c \in AskedBy(op, arg) THEN OsCallOf(op)
                       ELSE "none"],
       !.permission = [c \in Capability |->
                       IF c \in AskedBy(op, arg)
                       THEN GetPermissionConstant(os, c) ELSE "none"]]

\* A caller invokes an exported operation of the module. Platform.OS is
\* the platform of the device: every operation sees the same one.
Call(s, op, arg, os) ==
    /\ rcalls[s].state # "running"
    /\ \A c \in Capability : rcalls[s].pending[c] = "none"
    /\ \A t \in Callers : rcalls[t].os \in {"none", os}
    /\ rcalls' = [rcalls EXCEPT ![s] =
                    IF op = "showPermissionDeniedAlert"
                    THEN ShowPermissionDeniedAlert(arg, os)
                    ELSE Started(op, arg, os)]
    /\ UNCHANGED <<screenVars, content>>

\* The operations that are checkPermission / requestPermission themselves;
\* the others await one or two calls of them.
DirectOps == {"checkPermission", "requestPermission"}

\* The operation returning, with what it awaited: its value, and for
\* handlePermissionResult its alert (lines 114-119), in the same job.
Fulfil(r, got) ==
    [r EXCEPT !.state = "returned",
              !.value = ReturnValue(r.op, r.arg, got),
              !.alerts = IF r.op = "handlePermissionResult"
                         THEN AlertsFor(r.op, r.arg, got[r.arg]) ELSE <<>>,
              !.dialog = IF r.op = "handlePermissionResult"
                            /\ AlertsFor(r.op, r.arg, got[r.arg]) # <<>>
                         THEN "open" ELSE "none"]

\* checkPermission / requestPermission for c resumed after its await with
\* what the OS call settled with (lines 37-42, 50-55): it builds the
\* result, or the rejection leaves the function. When the exported
\* operation is that function, the operation is over; otherwise the
\* operation awaiting it is resumed by a later job (Complete). The result
\* of a call whose operation is already over is dropped.
AfterAwait(r, c, o) ==
    LET r1 == [r EXCEPT !.pending[c] = "none"]
        got == [r.got EXCEPT ![c] = PermissionResult(o)]
    IN IF r.state # "running" THEN r1
       ELSE IF o = "error"
       THEN IF r.op \in DirectOps
            THEN [r1 EXCEPT !.state = OnOsError(r.op)]
            ELSE [r1 EXCEPT !.failed[c] = TRUE]
       ELSE IF r.op \in DirectOps
       THEN Fulfil([r1 EXCEPT !.got = got], got)
       ELSE [r1 EXCEPT !.got = got]

\* The OS settles the outstanding call of slot s for capability c with o.
Settle(s, c, o) ==
    /\ rcalls[s].pending[c] # "none"
    /\ rcalls' = [rcalls EXCEPT ![s] = AfterAwait(rcalls[s], c, o)]
    /\ UNCHANGED <<screenVars, content>>

\* Whether what the operation awaits (one call, line 112; Promise.all over
\* two, lines 63, 77, 129) has settled: Promise.all rejects with the first
\* rejection and fulfils when every call has.
AwaitRejected(r) == \E c \in AskedBy(r.op, r.arg) : r.failed[c]

AwaitFulfilled(r) == \A c \in AskedBy(r.op, r.arg) : r.got[c] # NoResult

\* handlePermissionResult or an aggregate operation resumed after its
\* await (lines 68, 82-86, 114-121, 134-137).
Finish(r) ==
    IF AwaitRejected(r) THEN [r EXCEPT !.state = OnOsError(r.op)]
    ELSE Fulfil(r, r.got)

\* The job that resumes the operation of slot s: a job of its own, so the
\* jobs of another operation may run between the settlement and it.
Complete(s) ==
    /\ rcalls[s].state = "running"
    /\ rcalls[s].op \notin DirectOps
    /\ AwaitRejected(rcalls[s]) \/ AwaitFulfilled(rcalls[s])
    /\ rcalls' = [rcalls EXCEPT ![s] = Finish(rcalls[s])]
    /\ UNCHANGED <<screenVars, content>>

\* The user presses a button of the alert: Cancel dismisses it, Open
\* Settings calls openSettings() (line 102).
PressAlertButton(s, button) ==
    /\ rcalls[s].dialog = "open"
    /\ rcalls' = [rcalls EXCEPT ![s].dialog =
                    IF button.onPress = "openSettings"
                    THEN "settings" ELSE "dismissed"]
    /\ UNCHANGED <<screenVars, content>>

----------------------------------------------------------------------------
\* Interception shim, injectedJavaScript (HomeScreen.tsx lines 407-438)

\* Messages posted by the content and not yet delivered to the host.
MaxChannel == 3

\* A property of the constraints argument: absent, false, or truthy (true
\* or a constraint object).
ConstraintValues == {"undefined", "false", "true"}

\* The arguments of getUserMedia: no argument at all, or an object.

Constraints ==
    {NoConstraints} \cup
    [defined : {TRUE}, video : ConstraintValues, audio : ConstraintValues]

\* JavaScript truthiness of a property value, as tested by `if (...)`.
Truthy(v) == v = "true"

\* JSON.stringify({type: 'PERMISSION_REQUEST', permission}), lines 415-418
\* and 421-424.
Stringify(permission) ==
    <<"{">> \o Member("type", PERMISSION_REQUEST) \o <<",">>
          \o Member("permission", permission) \o <<"}">>

\* The replaced navigator.mediaDevices.getUserMedia, lines 412-428, run on
\* one call: the messages it posts, in order, whether it reached the call
\* of the original entry point and with which argument, and whether it
\* threw (reading a property of an absent argument is a TypeError, which
\* rejects the promise of the async function before anything is posted).
\* trace lists the calls the body makes, in execution order.
GetUserMedia_VideoOnly(constraints) ==
    IF ~constraints.defined
    THEN [arg |-> constraints, posts |-> <<>>, trace |-> <<>>,
          threw |-> TRUE, original |-> NotInvoked]
    ELSE LET posts == IF Truthy(constraints.video)
                      THEN <<Stringify("camera")>> ELSE <<>>
         IN [arg |-> constraints,
             posts |-> posts,
             trace |-> [i \in 1..Len(posts) |-> "postMessage"]
                       \o <<"originalGetUserMedia">>,
             threw |-> FALSE,
             original |-> [invoked |-> TRUE, arg |-> constraints]]

GetUserMedia(constraints) ==
    IF ~constraints.defined
    THEN [arg |-> constraints, posts |-> <<>>, trace |-> <<>>,
          threw |-> TRUE, original |-> NotInvoked]
    ELSE LET posts == (IF Truthy(constraints.video)
                       THEN <<Stringify("camera")>> ELSE <<>>)
                      \o (IF Truthy(constraints.audio)
                          THEN <<Stringify("microphone")>> ELSE <<>>)
         IN [arg |-> constraints,
             posts |-> posts,
             trace |-> [i \in 1..Len(posts) |-> "postMessage"]
                       \o <<"originalGetUserMedia">>,
             threw |-> FALSE,
             original |-> [invoked |-> TRUE, arg |-> constraints]]

\* The WebView runs injectedJavaScript in the loaded page (line 474).
Inject ==
    /\ screen # "home"
    /\ ~content.installed
    /\ content' = [content EXCEPT !.installed = TRUE]
    /\ UNCHANGED <<screenVars, rcalls>>

\* The page calls navigator.mediaDevices.getUserMedia(constraints). The
\* body has no await: posting and the call of the original entry point
\* happen in one run of the function, before the host handles anything.
CallGetUserMedia(constraints) ==
    /\ screen # "home"
    /\ content.installed
    /\ LET r == GetUserMedia(constraints)
       IN /\ Len(content.channel) + Len(r.posts) <= MaxChannel
          /\ content' = [content EXCEPT !.called = TRUE, !.last = r,
                                        !.channel = @ \o r.posts]
    /\ UNCHANGED <<screenVars, rcalls>>

\* The message channel delivers the oldest posted message to onMessage.
Deliver ==
    /\ screen # "home"
    /\ content.channel # <<>>
    /\ Len(tasks) < MaxTasks
    /\ tasks' = Append(tasks, NewTask(Head(content.channel)))
    /\ content' = [content EXCEPT !.channel = Tail(@)]
    /\ UNCHANGED <<screen, canGoBack, isLoading, permissionsGranted, rendered,
                   listener, lastBack, popping, rcalls>>

----------------------------------------------------------------------------
Init ==
    /\ screen = "home"
    /\ canGoBack = FALSE
    /\ isLoading = TRUE
    /\ permissionsGranted = DefaultGrants
    /\ lastBack = NoBack
    /\ popping = FALSE
    /\ tasks = <<>>
    /\ rendered = FirstRender
    /\ listener = FirstRender.canGoBack
    /\ rcalls = [s \in Callers |-> Idle]
    /\ content = NoContent

\* Every event of the screen: navigation to and from the viewer, the
\* events of its WebView, React's renders, the back presses, the messages
\* of the page and the jobs of the permission cycles. The inputs are drawn
\* from payloads (message texts), outcomes (what request() settles with)
\* and signals (the canGoBack the WebView reports).
ScreenNext(payloads, outcomes, signals) ==
    \/ NavigateToWebView
    \/ \E b \in signals : NavigationStateChange(b)
    \/ Render
    \/ LoadStart
    \/ LoadEnd
    \/ HardwareBackPress
    \/ HardwareBackPressUnfocused
    \/ HeaderBackPress
    \/ Blur
    \/ GestureBack
    \/ Unmount
    \/ \E data \in payloads : OnMessage(data)
    \/ \E i \in 1..MaxTasks, o \in outcomes : OSAnswer(i, o)
    \/ \E i \in 1..MaxTasks : ContinueAll(i)

Next == ScreenNext(Payloads, ScreenOutcomes, BOOLEAN)

Spec == Init /\ [][Next]_vars

\* The same events with the inputs drawn from subsets, so that the cycles
\* can be followed over more messages. Every behaviour of these
\* specifications is a behaviour of Spec.

\* The navigation of the viewer: requests for both capabilities, always
\* granted, and both values of the WebView's canGoBack signal.
NavNext == ScreenNext({Stringify("all")}, {"granted"}, BOOLEAN)

NavSpec == Init /\ [][NavNext]_vars

\* Every message text, against an OS that grants, on a page without history.
ParseNext == ScreenNext(Payloads, {"granted"}, {FALSE})

ParseSpec == Init /\ [][ParseNext]_vars

\* Requests for both capabilities, answered with a grant or a permanent
\* block, on a page without history.
AllNext == ScreenNext({Stringify("all")}, {"granted", "blocked"}, {FALSE})

AllSpec == Init /\ [][AllNext]_vars

\* Requests for both capabilities, answered with a grant or failing.
FailNext == ScreenNext({Stringify("all")}, {"granted", "error"}, {FALSE})

FailSpec == Init /\ [][FailNext]_vars

\* The three requests of the wire format (camera, microphone, all), each
\* OS request answered with a status.
FairNext ==
    ScreenNext({Stringify(p) : p \in {"camera", "microphone", "all"}},
               {"granted", "denied"}, {FALSE})

\* A job of some cycle: the OS settles a pending request, or a ready
\* continuation runs.
CycleJob ==
    \E i \in 1..MaxTasks :
        \/ \E o \in {"granted", "denied"} : OSAnswer(i, o)
        \/ ContinueAll(i)

\* While some cycle has a job to run, one of them is eventually run: the
\* promise returned by request() does not stay pending for ever and the job
\* queue runs the continuations that are ready.
FairSpec == Init /\ [][FairNext]_vars /\ WF_vars(CycleJob)

\* The resolver module driven by callers of its exported operations.
ResolverNext ==
    \/ \E s \in Callers, op \in SingleOps, c \in Capability, os \in Platforms :
          Call(s, op, c, os)
    \/ \E s \in Callers, op \in AllOps, os \in Platforms :
          Call(s, op, "none", os)
    \/ \E s \in Callers, c \in Capability, o \in Outcomes : Settle(s, c, o)
    \/ \E s \in Callers : Complete(s)
    \/ \E s \in Callers, button \in DeniedAlertButtons :
          PressAlertButton(s, button)

ResolverSpec == Init /\ [][ResolverNext]_vars

\* The content context with the shim installed, its message channel, and
\* the host handling what the channel delivers, against an OS that grants,
\* and rendering the grants it stores, until the viewer is left and its
\* page discarded. The shim posts single-capability requests only, so no
\* cycle of this specification has a continuation to run.
ShimNext ==
    \/ NavigateToWebView
    \/ Inject
    \/ \E constraints \in Constraints : CallGetUserMedia(constraints)
    \/ Deliver
    \/ \E i \in 1..MaxTasks : OSAnswer(i, "granted")
    \/ Render
    \/ HeaderBackPress
    \/ Blur
    \/ Unmount

ShimSpec == Init /\ [][ShimNext]_vars

----------------------------------------------------------------------------
\* Properties

TaskIds == 1..Len(tasks)

\* A step in which a back action on the focused viewer ran code of the
\* screen: the hardware press handled by onBackPress or the header button.
BackStep ==
    /\ screen = "focused"
    /\ lastBack'.src \in {"hardware", "header"}
    /\ (lastBack' # lastBack \/ (popping' /\ ~popping))

\* What the navigation synchronizer is to do when the content can go back:
\* one goBack() on the content, no onGoBack(), the action consumed, the
\* viewer still on screen and not asked to be popped by this action.
SteppedContentBack ==
    /\ lastBack'.goBack = 1
    /\ lastBack'.onGoBack = 0
    /\ lastBack'.consumed
    /\ screen' = "focused"
    /\ popping' = popping

\* One onGoBack(), no goBack(): the navigator is asked to pop the viewer.
ExitedViewerOnce ==
    /\ lastBack'.onGoBack = 1
    /\ lastBack'.goBack = 0
    /\ popping'

\* C1 as stated: every back action on the viewer taken while the last
\* canGoBack reported by the content is true steps the content history
\* back, is consumed, and never calls onGoBack.
C1_AnyBackActionStepsContent ==
    [][BackStep /\ canGoBack => SteppedContentBack]_vars

\* C2 as stated: a back action (hardware or header) taken while the last
\* canGoBack reported by the content is false calls onGoBack() exactly once
\* and does not call the content's goBack().
C2_BackWithoutHistoryExitsOnce ==
    [][BackStep /\ ~canGoBack => ExitedViewerOnce]_vars

\* C3: a cycle started by a permission:"all" message has issued exactly one
\* OS request for the camera, at most one for the microphone while it runs,
\* and exactly one for each when it has finished, whatever the outcomes.
C3_AllIssuesOneRequestEach ==
    \A i \in TaskIds :
        tasks[i].target = "all" =>
            /\ tasks[i].reqs["camera"] = 1
            /\ tasks[i].reqs["microphone"] <= 1
            /\ (tasks[i].pc = "done" => tasks[i].reqs["microphone"] = 1)

C3_Witness ==
    \E i \in TaskIds :
        /\ tasks[i].target = "all"
        /\ tasks[i].pc = "done"
        /\ tasks[i].out["camera"] = "error"
        /\ tasks[i].out["microphone"] = "granted"
        /\ tasks[i].reqs = [c \in Capability |-> 1]

\* The three payloads of the wire format that name a request.
Conforming ==
    { <<"{", "type", ":", "PERMISSION_REQUEST", ",",
        "permission", ":", p, "}">> : p \in {"camera", "microphone", "all"} }

\* C4: a message outside the wire format starts nothing: its handler has
\* finished, issued no OS request, invoked no store update, shown no alert
\* and let no error escape; and the step that delivers it leaves the store
\* as it was.
C4_MalformedIsDiscarded ==
    /\ [](\A i \in TaskIds :
            tasks[i].msg \notin Conforming =>
                /\ tasks[i].pc = "done"
                /\ tasks[i].target = "none"
                /\ tasks[i].reqs = [c \in Capability |-> 0]
                /\ tasks[i].sets = [c \in Capability |-> 0]
                /\ tasks[i].alerts = 0
                /\ ~tasks[i].uncaught)
    /\ [][(Len(tasks') > Len(tasks)
             /\ tasks'[Len(tasks')].msg \notin Conforming)
          => permissionsGranted' = permissionsGranted]_vars

C4_Witness ==
    /\ Len(tasks) = 2
    /\ tasks[1].msg = <<"null">>
    /\ tasks[2].msg = <<"{", "type", ":", "PERMISSION_REQUEST", ",",
                        "permission", ":", "video", "}">>
    /\ tasks[2].pc = "done"
    /\ permissionsGranted = [c \in Capability |-> FALSE]

\* C5: a finished "all" cycle whose camera request resolved blocked and
\* whose microphone request resolved granted has camera not granted,
\* microphone granted, returned false, and shown exactly one alert.
C5_BlockedCameraAlertsOnce ==
    \A i \in TaskIds :
        (/\ tasks[i].target = "all"
         /\ tasks[i].pc = "done"
         /\ tasks[i].out["camera"] = "blocked"
         /\ tasks[i].out["microphone"] = "granted")
        => /\ ~tasks[i].granted["camera"]
           /\ tasks[i].granted["microphone"]
           /\ tasks[i].ret = "false"
           /\ tasks[i].alerts = 1

C5_Witness ==
    \E i \in TaskIds :
        /\ tasks[i].target = "all"
        /\ tasks[i].pc = "done"
        /\ tasks[i].out["camera"] = "blocked"
        /\ tasks[i].out["microphone"] = "granted"
        /\ tasks[i].live
        /\ tasks[i].alerts = 1

\* Every answer the OS has given to a cycle of the mounted screen is granted.
OsAlwaysGranted ==
    \A i \in TaskIds :
        tasks[i].live =>
            \A c \in Capability : tasks[i].out[c] \in {"none", "granted"}

\* C6: against an OS that grants every request, however the cycles of the
\* mounted screen interleave, a capability that any of them has been granted
\* is granted in the store (no update is overwritten with a stale value),
\* and every finished "all" cycle returned true without an alert.
C6_ConcurrentCyclesKeepGrants ==
    (screen # "home" /\ OsAlwaysGranted) =>
        \A i \in TaskIds :
            tasks[i].live =>
                /\ \A c \in Capability :
                      tasks[i].out[c] = "granted" => permissionsGranted[c]
                /\ (tasks[i].target = "all" /\ tasks[i].pc = "done"
                      => tasks[i].ret = "true" /\ tasks[i].alerts = 0)

\* The second cycle started after the first and finished before it.
C6_Witness ==
    /\ Len(tasks) >= 2
    /\ screen # "home"
    /\ OsAlwaysGranted
    /\ tasks[1].target = "all" /\ tasks[1].live
    /\ tasks[1].pc = "reqMicrophone"
    /\ tasks[2].target = "all" /\ tasks[2].live
    /\ tasks[2].pc = "done" /\ tasks[2].ret = "true"
    /\ permissionsGranted = [c \in Capability |-> TRUE]

\* C7 as stated: no check or request operation of the resolver rejects to
\* its caller, and one whose OS call failed returns a not-granted result.
C7_ResolverNeverRejects ==
    \A s \in Callers :
        rcalls[s].op \in {"checkPermission", "requestPermission",
                          "checkAllPermissions", "requestAllPermissions"}
            => rcalls[s].state # "rejected"

\* The capabilities a conforming request names.
Named(target) ==
    IF target = "all" THEN Capability
    ELSE IF target \in Capability THEN {target} ELSE {}

\* A request of the cycle has failed.
HasFailed(t) == \E c \in Capability : t.out[c] = "error"

\* C8 as stated: a cycle in which an OS request failed leaves the store
\* with the value it had before the cycle for every capability, so no step
\* the cycle takes once a request of it has failed changes the store; and
\* no error escapes any handler.
C8_FailedCycleKeepsStore ==
    /\ [](\A i \in TaskIds : ~tasks[i].uncaught)
    /\ [][\A i \in TaskIds :
            (/\ tasks[i].live /\ tasks'[i].live
             /\ HasFailed(tasks[i])
             /\ tasks'[i] # tasks[i])
                => permissionsGranted' = permissionsGranted]_vars

\* C8, amended: the step in which an OS request of a cycle fails leaves the
\* store exactly as it was, for every capability; the failed request never
\* invokes the store update, so a cycle all of whose requests failed has
\* written nothing; a request of the same cycle that the OS answered still
\* writes its own capability; and no error escapes any handler.
C8_FailureLeavesStore ==
    /\ [](\A i \in TaskIds : ~tasks[i].uncaught)
    /\ [](\A i \in TaskIds : \A c \in Capability :
            tasks[i].out[c] = "error" => tasks[i].sets[c] = 0)
    /\ [](\A i \in TaskIds :
            (\A c \in Named(tasks[i].target) : tasks[i].out[c] = "error")
                => tasks[i].sets = Zero)
    /\ [][\A i \in TaskIds : \A c \in Capability :
            (tasks[i].out[c] = "none" /\ tasks'[i].out[c] = "error")
                => permissionsGranted' = permissionsGranted]_vars

\* A cycle for both capabilities on a mounted screen has finished: its
\* camera request was granted and written, its microphone request failed
\* and wrote nothing, over a microphone grant written by an earlier cycle.
C8_Witness ==
    \E i \in TaskIds :
        /\ tasks[i].live
        /\ tasks[i].target = "all"
        /\ tasks[i].pc = "done"
        /\ tasks[i].out["camera"] = "granted"
        /\ tasks[i].out["microphone"] = "error"
        /\ tasks[i].sets = [c \in Capability |-> IF c = "camera" THEN 1 ELSE 0]
        /\ permissionsGranted = [c \in Capability |-> TRUE]

\* C9: every cycle started by a conforming message finishes once the OS
\* has answered its requests (cycles never restart, so: again and again no
\* started cycle is left unfinished); a finished cycle whose requests were
\* all answered with a status has invoked the store update once for each
\* capability it names; and each such update of a mounted screen writes
\* the outcome into the store.
C9_CycleEndsInStoreUpdate ==
    /\ []<>(\A i \in TaskIds : tasks[i].pc = "done")
    /\ [](\A i \in TaskIds :
            (/\ tasks[i].pc = "done"
             /\ \A c \in Named(tasks[i].target) : tasks[i].out[c] \in Statuses)
            => \A c \in Named(tasks[i].target) : tasks[i].sets[c] = 1)
    /\ [][\A i \in TaskIds : \A c \in Capability :
            (tasks[i].live /\ tasks[i].out[c] = "none"
                           /\ tasks'[i].out[c] \in Statuses)
                => permissionsGranted'[c] = (tasks'[i].out[c] = "granted")]_vars

\* Two cycles of a mounted screen have finished: one for the microphone
\* alone, granted and written once, and a later one for both capabilities,
\* whose camera was denied and whose microphone was denied, each written
\* once: the store holds the later answers.
C9_Witness ==
    \E i, j \in TaskIds :
        /\ i < j
        /\ tasks[i].target = "microphone"
        /\ tasks[i].pc = "done"
        /\ tasks[i].live
        /\ tasks[i].out["microphone"] = "granted"
        /\ tasks[i].sets = [c \in Capability |-> IF c = "microphone" THEN 1 ELSE 0]
        /\ tasks[j].target = "all"
        /\ tasks[j].pc = "done"
        /\ tasks[j].live
        /\ tasks[j].out = [c \in Capability |-> "denied"]
        /\ tasks[j].sets = [c \in Capability |-> 1]

\* Every result record the resolver call holds or has returned.
ResultsOf(r) ==
    {r.got[c] : c \in Capability}
        \cup {r.value.result, r.value.camera, r.value.microphone}

\* C10: in every result produced by check or request, alone or inside an
\* aggregate, granted is true exactly when status is granted.
C10_GrantedIffStatusGranted ==
    \A s \in Callers :
        \A r \in ResultsOf(rcalls[s]) : r.granted <=> (r.status = "granted")

C10_Witness ==
    \E s \in Callers :
        /\ rcalls[s].op = "requestAllPermissions"
        /\ rcalls[s].state = "returned"
        /\ rcalls[s].value.camera = [granted |-> FALSE, status |-> "limited"]
        /\ rcalls[s].value.microphone = [granted |-> TRUE, status |-> "granted"]
        /\ ~rcalls[s].value.allGranted

\* C11: a finished "all" cycle whose two requests both resolved granted
\* (capabilities already granted: request() answers without a prompt)
\* returned true and showed no alert.
C11_PreGrantedNoRemediation ==
    \A i \in TaskIds :
        (/\ tasks[i].target = "all"
         /\ tasks[i].pc = "done"
         /\ \A c \in Capability : tasks[i].out[c] = "granted")
        => /\ tasks[i].ret = "true"
           /\ tasks[i].alerts = 0

C11_Witness ==
    \E i \in TaskIds :
        /\ tasks[i].target = "all"
        /\ tasks[i].pc = "done"
        /\ tasks[i].live
        /\ \A c \in Capability : tasks[i].out[c] = "granted"
        /\ tasks[i].ret = "true"
        /\ tasks[i].alerts = 0

\* C12: whatever the two OS outcomes, the aggregate returned by
\* requestAllPermissions carries the two results it awaited and has
\* allGranted true exactly when both of them have status granted.
C12_AllGrantedIffBoth ==
    \A s \in Callers :
        (rcalls[s].op = "requestAllPermissions" /\ rcalls[s].state = "returned") =>
            /\ rcalls[s].value.camera = rcalls[s].got["camera"]
            /\ rcalls[s].value.microphone = rcalls[s].got["microphone"]
            /\ rcalls[s].value.allGranted <=>
                  (/\ rcalls[s].value.camera.status = "granted"
                   /\ rcalls[s].value.microphone.status = "granted")

\* Two overlapping requestAllPermissions calls returned different
\* aggregates, one all granted and one with the microphone denied.
C12_Witness ==
    /\ \A s \in Callers : /\ rcalls[s].op = "requestAllPermissions"
                          /\ rcalls[s].state = "returned"
                          /\ rcalls[s].value.camera.status = "granted"
    /\ rcalls["first"].value.microphone.status = "denied"
    /\ ~rcalls["first"].value.allGranted
    /\ rcalls["second"].value.allGranted

\* C13 as stated: an alert is shown only by a finished cycle in which a
\* capability resolved blocked or an "all" request was not all-granted; and
\* every finished cycle in which a named capability resolved blocked has
\* shown the alert, a single-capability cycle included.
C13_BlockedIsRemediated ==
    \A i \in TaskIds :
        /\ tasks[i].alerts > 0 =>
              /\ tasks[i].pc = "done"
              /\ \/ \E c \in Capability : tasks[i].out[c] = "blocked"
                 \/ tasks[i].target = "all" /\ tasks[i].ret = "false"
        /\ (/\ tasks[i].pc = "done"
            /\ \E c \in Named(tasks[i].target) : tasks[i].out[c] = "blocked")
           => tasks[i].alerts >= 1

\* C14 as stated: in a cycle for both capabilities the microphone request
\* is already issued while the camera request is still pending, the
\* aggregate is returned only after both requests have settled, and no
\* alert is shown before both have settled.
C14_BothRequestsIssuedConcurrently ==
    \A i \in TaskIds :
        tasks[i].target = "all" =>
            /\ tasks[i].pc = "reqCamera" => tasks[i].reqs["microphone"] = 1
            /\ tasks[i].ret # "none" =>
                  \A c \in Capability : tasks[i].out[c] # "none"
            /\ tasks[i].alerts > 0 =>
                  \A c \in Capability : tasks[i].out[c] # "none"

----------------------------------------------------------------------------
\* Interception shim

\* How many of the messages a call posted the host handler would dispatch
\* to the given target.
PostsFor(call, target) ==
    Cardinality({i \in 1..Len(call.posts) : Dispatch(call.posts[i]).target = target})

\* What the shim is said to do on one call: one camera request iff video
\* is asked for, one microphone request iff audio is, nothing else posted,
\* the original entry point called once, last, with the same constraints.
PassedThrough(call) ==
    /\ PostsFor(call, "camera") = (IF Truthy(call.arg.video) THEN 1 ELSE 0)
    /\ PostsFor(call, "microphone") = (IF Truthy(call.arg.audio) THEN 1 ELSE 0)
    /\ Len(call.posts) = PostsFor(call, "camera") + PostsFor(call, "microphone")
    /\ ~call.threw
    /\ call.original = [invoked |-> TRUE, arg |-> call.arg]
    /\ call.trace # <<>>
    /\ \A i \in 1..Len(call.trace) :
           call.trace[i] = "originalGetUserMedia" <=> i = Len(call.trace)

\* A step in which the page called getUserMedia (a repeated identical call
\* that posts nothing is a stuttering step and is not told apart); the step
\* that discards the page with the viewer is not one.
ShimCalled ==
    /\ content'.installed
    /\ \/ content'.last # content.last
       \/ content'.called # content.called
       \/ Len(content'.channel) > Len(content.channel)

\* The call ran to its end within the step: its messages are only queued,
\* the host has handled nothing in between and its state is untouched.
RanWithoutHost ==
    /\ content'.channel = content.channel \o content'.last.posts
    /\ UNCHANGED <<tasks, permissionsGranted, screen>>

\* C15 (as stated): every intercepted getUserMedia call posts a camera
\* request iff video is requested and a microphone request iff audio is,
\* posts them before calling the original entry point, always calls the
\* original entry point with the unmodified constraints, and does not wait
\* for the host before doing so.
C15_EveryCallPassesThrough ==
    /\ [](content.called => PassedThrough(content.last))
    /\ [][ShimCalled => RanWithoutHost]_vars

\* C15 (amended): the same, for every call that passes a constraints
\* object. A call without an argument throws inside the shim before
\* anything is posted and never reaches the original entry point.
C15_CallWithConstraintsPassesThrough ==
    /\ [](content.called =>
            IF content.last.arg.defined
            THEN PassedThrough(content.last)
            ELSE /\ content.last.posts = <<>>
                 /\ content.last.threw
                 /\ ~content.last.original.invoked)
    /\ [][ShimCalled => RanWithoutHost]_vars

\* A call asking for video and audio posted both requests, in that order,
\* called the original entry point, and the host has not yet received them.
C15_Witness ==
    /\ content.called
    /\ content.last.arg = [defined |-> TRUE, video |-> "true", audio |-> "true"]
    /\ content.last.posts = <<Stringify("camera"), Stringify("microphone")>>
    /\ content.last.original.invoked
    /\ Len(content.channel) >= 2
    /\ tasks = <<>>

----------------------------------------------------------------------------
\* Grant state store

\* The store, as the mounted screen holds it, has the two keys and boolean
\* values.
StoreShape ==
    /\ DOMAIN permissionsGranted = Capability
    /\ \A c \in Capability : permissionsGranted[c] \in BOOLEAN

\* The step is the continuation of a request of a live cycle to which the
\* OS returned a status, and the store changed in that capability only, to
\* whether the status is granted.
RequestReturnedStatus(i) ==
    /\ tasks[i].live
    /\ tasks[i].pc \in AwaitingOS
    /\ LET c == Awaiting(tasks[i])
       IN /\ tasks[i].out[c] = "none"
          /\ tasks'[i].out[c] \in Statuses
          /\ tasks'[i].sets[c] = tasks[i].sets[c] + 1
          /\ permissionsGranted' =
                 [permissionsGranted EXCEPT ![c] = (tasks'[i].out[c] = "granted")]

\* C16: the grant state store always holds exactly the keys camera and
\* microphone, both not granted when the screen mounts, and while the
\* screen is mounted its value changes only in the request path of the
\* bridge handler after an OS request returned a status: back actions,
\* navigation events, load events, alerts and malformed messages leave it
\* unchanged.
C16_StoreChangesOnlyOnStatus ==
    /\ [](StoreShape /\ (screen = "home" => permissionsGranted = DefaultGrants))
    /\ [][(screen = "home" /\ screen' # "home")
            => permissionsGranted' = DefaultGrants]_vars
    /\ [][(screen # "home" /\ screen' # "home"
             /\ permissionsGranted' # permissionsGranted)
            => \E i \in TaskIds : RequestReturnedStatus(i)]_vars

\* The camera grant recorded by an `all` cycle whose microphone request
\* failed and which ended in the alert is still in the store, and on
\* screen, after the alert, a render and the end of the page load.
C16_Witness ==
    /\ screen = "focused"
    /\ permissionsGranted = [camera |-> TRUE, microphone |-> FALSE]
    /\ rendered.permissionsGranted = permissionsGranted
    /\ ~isLoading
    /\ Len(tasks) = 1
    /\ tasks[1].live
    /\ tasks[1].out = [camera |-> "granted", microphone |-> "error"]
    /\ tasks[1].pc = "done"
    /\ tasks[1].alerts = 1

----------------------------------------------------------------------------
\* Remediation surface

\* C17: the remediation surface the viewer shows offers a choice between
\* dismissing and opening the OS settings: whenever a cycle has shown its
\* alert, one of the alert's buttons dismisses without effect and another
\* one opens the settings.
C17_AlertOffersSettings ==
    \A i \in TaskIds :
        tasks[i].alerts > 0 =>
            /\ \E b \in ScreenAlertButtons : b.onPress = "none"
            /\ \E b \in ScreenAlertButtons : b.onPress = "openSettings"

----------------------------------------------------------------------------
\* Capability resolver: handlePermissionResult and the check operations

\* C18: handlePermissionResult(c) returns true iff the request for c
\* resolved granted, shows the settings alert (for c, once) exactly when
\* the status is blocked, and for a plain denial returns false without any
\* alert; nothing is shown before the request has resolved.
C18_AlertOnlyWhenBlocked ==
    \A s \in Callers :
        rcalls[s].op = "handlePermissionResult" =>
            IF rcalls[s].state = "returned"
            THEN LET status == rcalls[s].got[rcalls[s].arg].status
                 IN /\ rcalls[s].issued[rcalls[s].arg] = "request"
                    /\ rcalls[s].value.kind = "boolean"
                    /\ rcalls[s].value.ok <=> status = "granted"
                    /\ rcalls[s].alerts = (IF status = "blocked"
                                           THEN <<rcalls[s].arg>> ELSE <<>>)
                    /\ status = "denied" =>
                          ~rcalls[s].value.ok /\ rcalls[s].alerts = <<>>
            ELSE rcalls[s].alerts = <<>>

\* handlePermissionResult('microphone') returned false on a blocked status
\* and showed the settings alert for the microphone, whose Open Settings
\* button has been pressed.
C18_Witness ==
    \E s \in Callers :
        /\ rcalls[s].op = "handlePermissionResult"
        /\ rcalls[s].arg = "microphone"
        /\ rcalls[s].state = "returned"
        /\ rcalls[s].got["microphone"].status = "blocked"
        /\ ~rcalls[s].value.ok
        /\ rcalls[s].alerts = <<"microphone">>
        /\ rcalls[s].dialog = "settings"

CheckOps == {"checkPermission", "checkAllPermissions", "arePermissionsBlocked"}

\* C20: the check operations only query the OS grant state: none of their
\* OS calls is a request (prompt), they show no alert, and the grant state
\* store of the viewer is left as it was.
C20_ChecksOnlyQuery ==
    \A s \in Callers :
        rcalls[s].op \in CheckOps =>
            /\ \A c \in Capability :
                   /\ rcalls[s].issued[c] # "request"
                   /\ rcalls[s].pending[c] # "request"
                   /\ c \in AskedBy(rcalls[s].op, rcalls[s].arg)
                         <=> rcalls[s].issued[c] = "check"
            /\ rcalls[s].alerts = <<>>
            /\ permissionsGranted = DefaultGrants
            /\ tasks = <<>>

\* arePermissionsBlocked returned after two check() calls, reporting the
\* camera blocked and the microphone not, while a request of another caller
\* was still waiting for the OS.
C20_Witness ==
    \E s \in Callers :
        /\ rcalls[s].op = "arePermissionsBlocked"
        /\ rcalls[s].state = "returned"
        /\ rcalls[s].issued = [c \in Capability |-> "check"]
        /\ rcalls[s].value.blocked = [camera |-> TRUE, microphone |-> FALSE]
        /\ rcalls[s].alerts = <<>>
        /\ \E t \in Callers \ {s} :
              /\ rcalls[t].op = "requestPermission"
              /\ rcalls[t].state = "running"

----------------------------------------------------------------------------
\* Unmount while a request is in flight

\* A step in which the OS settles a request of a cycle whose screen has
\* unmounted.
LateAnswer(i) ==
    /\ ~tasks[i].live
    /\ tasks[i].pc \in AwaitingOS
    /\ tasks'[i] # tasks[i]

\* C19: when the viewer unmounts while an OS permission request is in
\* flight, the later arrival of the result raises no error and leaves the
\* grant state untouched, whatever screen is mounted by then; and a screen
\* mounted afterwards starts from the default not-granted mapping.
C19_LateResultIsNoOp ==
    /\ [][\A i \in TaskIds :
            LateAnswer(i) =>
                /\ permissionsGranted' = permissionsGranted
                /\ ~tasks'[i].uncaught
                /\ tasks'[i].out[Awaiting(tasks[i])] \in ScreenOutcomes]_vars
    /\ [][(screen = "home" /\ screen' = "focused")
            => permissionsGranted' = DefaultGrants]_vars
    /\ [](\A i \in TaskIds : ~tasks[i].live => ~tasks[i].uncaught)

\* A new viewer is mounted with the default store while a cycle of a
\* previous viewer, now unmounted, has had both of its requests granted
\* (among the ways to get here: the answers arrived after the unmount).
C19_Witness ==
    /\ screen = "focused"
    /\ permissionsGranted = DefaultGrants
    /\ \E i \in TaskIds :
          /\ ~tasks[i].live
          /\ tasks[i].target = "all"
          /\ tasks[i].out = [c \in Capability |-> "granted"]
          /\ tasks[i].sets = [c \in Capability |-> 1]
          /\ tasks[i].pc = "done"

----------------------------------------------------------------------------
\* Store and indicator follow the latest status

\* A step in which a request of a cycle of the mounted screen resolves
\* with a status.
StatusArrived(i) ==
    /\ tasks[i].live
    /\ tasks[i].pc \in AwaitingOS
    /\ tasks'[i] # tasks[i]
    /\ tasks'[i].out[Awaiting(tasks[i])] \in Statuses

\* C21: the store shows capability c as granted only if the request for c
\* that resolved last during this mount returned granted. Every status
\* that arrives for c overwrites the entry for c with whether it is
\* granted (so of overlapping requests the one resolving last wins, and a
\* later refusal turns the entry off); between two arrivals the store of
\* the mounted screen does not change; an entry that is on has a request of
\* this mount that returned granted; and the indicator, which shows the
\* store as of the last render, changes only to what the store holds.
C21_StoreShowsLatestStatus ==
    /\ [][\A i \in TaskIds :
            StatusArrived(i) =>
                LET c == Awaiting(tasks[i])
                IN /\ permissionsGranted'[c] = (tasks'[i].out[c] = "granted")
                   /\ \A d \in Capability \ {c} :
                          permissionsGranted'[d] = permissionsGranted[d]]_vars
    /\ [][(screen # "home" /\ screen' # "home"
             /\ ~\E i \in TaskIds : StatusArrived(i))
            => permissionsGranted' = permissionsGranted]_vars
    /\ [](\A c \in Capability :
            permissionsGranted[c] =>
                \E i \in TaskIds : tasks[i].live /\ tasks[i].out[c] = "granted")
    /\ [][rendered'.permissionsGranted # rendered.permissionsGranted
            => rendered'.permissionsGranted = permissionsGranted']_vars

\* The camera requests of two overlapping cycles of the mounted screen have
\* resolved, one granted and one blocked; the refusal came last, and the
\* indicator is rendered off.
C21_Witness ==
    /\ screen = "focused"
    /\ Len(tasks) = 2
    /\ \A i \in TaskIds : tasks[i].live /\ tasks[i].target = "all"
    /\ tasks[1].out["camera"] = "granted"
    /\ tasks[2].out = [camera |-> "blocked", microphone |-> "none"]
    /\ tasks[2].pc = "retCamera"
    /\ ~permissionsGranted["camera"]
    /\ rendered.permissionsGranted = permissionsGranted

----------------------------------------------------------------------------
\* Hardware back presses and focus

\* A step in which a hardware back press was delivered.
HardwarePress ==
    /\ lastBack'.src = "hardware"
    /\ (lastBack' # lastBack \/ (popping' /\ ~popping))

\* C22: while the viewer is focused every hardware back press is consumed
\* by the screen's handler and results in exactly one of content goBack
\* and host exit (never both, never neither, never the platform default),
\* which of the two being decided by the canGoBack of the render that
\* registered the handler; a press after the viewer lost focus finds no
\* handler of the screen: it triggers neither and changes nothing of the
\* screen.
C22_FocusedPressIsConsumedOnce ==
    [][HardwarePress =>
         IF screen = "focused"
         THEN /\ lastBack'.consumed
              /\ lastBack'.goBack + lastBack'.onGoBack = 1
              /\ lastBack'.goBack = 1 <=> listener
              /\ popping' = (popping \/ ~listener)
              /\ screen' = screen
         ELSE /\ ~lastBack'.consumed
              /\ lastBack'.goBack = 0
              /\ lastBack'.onGoBack = 0
              /\ UNCHANGED <<screen, popping, canGoBack, permissionsGranted,
                             tasks>>]_vars

\* A hardware press on the focused viewer was handled by the registered
\* onBackPress, which asked for the exit and consumed the press; the
\* content had reported history and that render was committed, but the
\* focus effect had not replaced the listener of the render before. The
\* blur has since been delivered.
C22_Witness ==
    /\ screen = "blurred"
    /\ popping
    /\ canGoBack
    /\ rendered.canGoBack
    /\ ~listener
    /\ lastBack = OnBackPress(FALSE, TRUE)
====
